---- MODULE Spec2Model ----
(***************************************************************************)
(* A state-machine model of the Strava-Visualiser coverage script          *)
(* (src/src/MapCoverage.py): the track-file loop that fills `runs`, then   *)
(* the per-region loop that projects, filters, buffers and measures.       *)
(*                                                                         *)
(* Representation.  Geographic coordinates are integers in hundredths of   *)
(* a degree (the region boxes of the source are exact in that unit).       *)
(* Projected coordinates are integers in units of 50 metres.  A polygon    *)
(* is an axis-aligned rectangle [minx, miny, maxx, maxy]; an area-bearing  *)
(* geometry (a union of buffers) is the set of its centres with the        *)
(* buffer distance and the number of sides of each disk, and its area is   *)
(* counted in cells of a quarter of the distance.                          *)
(*                                                                         *)
(* The directory listing, the content of each file and the parsed GPX      *)
(* structure are inputs: they are drawn when the script reads them.        *)
(* Variables named after the script's variables hold what the script       *)
(* holds; the variables listed under "observation" are read by no guard    *)
(* and only record what happened, so that properties can be stated.        *)
(*                                                                         *)
(* Three specifications: Spec is the whole script; SpecGeom is one UK      *)
(* iteration taken at its filter, for any polygon and points of a small    *)
(* lattice; SpecLegacy is the UK-only script src/MapCoverage.py, which     *)
(* shares the file loop and differs in what follows it.                    *)
(***************************************************************************)
EXTENDS Integers, Sequences, FiniteSets, TLC

\* ------------------------------------------------------------------ bounds
\* Directory entries per run, records per FIT file, segments per GPX file,
\* points per segment, the largest sampling stride, and the points a run
\* extracts in all.
MaxFiles == 2
MaxRecords == 6
MaxSegments == 2
MaxSegPoints == 2
MaxStride == 2
\* Line 50: the stride the script is written with.
DefaultStride == 5
MaxPoints == 4
\* The lattice of the filter taken on its own: its side, and the points on it.
GeomSize == 2
MaxGeomPoints == 3

\* ------------------------------------------------------------- input sets
\* Python's None, and a value that is present: a tuple of no or one element.
None == << >>
Some(v) == << v >>
Val(o) == o[1]

\* Directory entries, as the dot-separated parts of the file name; the
\* last is an entry named "gpx", with no dot.
FileNames ==
    { <<"run", "gpx">>, <<"run", "gpx", "gz">>, <<"ride", "fit", "gz">>,
      <<"activities", "csv">>, <<"gpx">> }

\* str.endswith on the dotted parts of a name, for a suffix that begins
\* with a dot (".gpx" is the suffix <<"gpx">>): the dot needs a part before
\* it, which may be empty.
EndsWith(name, suffix) ==
    /\ Len(name) > Len(suffix)
    /\ SubSeq(name, Len(name) - Len(suffix) + 1, Len(name)) = suffix

\* The chain with its last branch taken by every other name.
Branch_ElseFit(name) ==
    IF EndsWith(name, <<"gpx">>) THEN "gpx"
    ELSE IF EndsWith(name, <<"gpx", "gz">>) THEN "gpx.gz"
    ELSE "fit.gz"

\* Which branch of the if/elif chain of the file loop a name takes.
Branch(name) ==
    IF EndsWith(name, <<"gpx">>) THEN "gpx"
    ELSE IF EndsWith(name, <<"gpx", "gz">>) THEN "gpx.gz"
    ELSE IF EndsWith(name, <<"fit", "gz">>) THEN "fit.gz"
    ELSE "skip"

\* Raw semicircle values a FIT record field can carry (or None: absent/null).
FitLatValues == {None, Some(636855910)}
FitLonValues == {None, Some(-17537350)}
FitRecords == [position_lat : FitLatValues, position_long : FitLonValues]

\* No record: what `last_record` holds outside the record loop.
NoRecord == [position_lat |-> None, position_long |-> None]

\* Leaving a `with` block without closing its file.
Close_Leak(handles, h) == handles

\* Leaving a `with` block (lines 56-57, 60-61, 65-85), by its end or by an
\* exception: the file it opened is closed.
Close(handles, h) == handles \ {h}

\* data.value * (180 / 2**31), in hundredths of a degree, rounded down:
\* v * 18000 / 2^31 = v * 1125 / 2^27, taken on the two halves of
\* v = q * 2^20 + r to stay within 32 bits.
SemicirclesToDegrees(v) ==
    (((v \div 1048576) * 1125) + (((v % 1048576) * 1125) \div 1048576)) \div 128

\* Track points a GPX file can carry: one on the west edge of the Sheffield
\* box, one far outside every region.
GpxPoints == { [longitude |-> -155, latitude |-> 5340],
               [longitude |-> 235, latitude |-> 4886] }

\* shapely Point(x, y)
Point(x, y) == [x |-> x, y |-> y]

RECURSIVE SeqsUpTo(_, _)
SeqsUpTo(S, n) ==
    IF n = 0 THEN { <<>> }
    ELSE LET shorter == SeqsUpTo(S, n - 1)
         IN  shorter \cup { Append(s, e) : s \in { t \in shorter : Len(t) = n - 1 }, e \in S }

\* ------------------------------------------------------------- geometry
\* shapely box(minx, miny, maxx, maxy)
box(minx, miny, maxx, maxy) == [minx |-> minx, miny |-> miny, maxx |-> maxx, maxy |-> maxy]

\* gpd.GeoDataFrame(geometry=..., crs=...); None where Python has None.
GeoDataFrame(geometry, crs) == [kind |-> "gdf", crs |-> crs, geometry |-> geometry]
NoFrame == [kind |-> "None", crs |-> 0, geometry |-> << >>]
IsNone(frame) == frame.kind = "None"

\* Empty testing for None instead of for no rows.
Empty_OnlyNone(frame) == frame.kind = "None"

\* DataFrame.empty
Empty(frame) == Len(frame.geometry) = 0

\* The boundary dataset read at line 15, one row per country: stand-in
\* boxes for the polygons of the shapefile, in hundredths of a degree.
world ==
    [ kind |-> "gdf", crs |-> 4326,
      ADMIN |-> << "United Kingdom", "France" >>,
      geometry |-> << box(-800, 4990, 180, 6090), box(-480, 4230, 820, 5110) >> ]

\* world[world['ADMIN'] == name]
RowsNamed(frame, name) ==
    LET keep == { k \in 1..Len(frame.geometry) : frame.ADMIN[k] = name }
        F[k \in 0..Len(frame.geometry)] ==
            IF k = 0 THEN << >>
            ELSE IF k \in keep THEN Append(F[k - 1], frame.geometry[k]) ELSE F[k - 1]
    IN  GeoDataFrame(F[Len(frame.geometry)], frame.crs)

\* Line 16
uk == RowsNamed(world, "United Kingdom")

\* Projection of geographic hundredths of a degree to a planar CRS, in
\* units of 50 m, linearised about the regions of the script: EPSG:27700
\* about its true origin (49N 2W, false origin 400 km / -100 km, 663.7 m
\* and 1112 m per hundredth of a degree), EPSG:3857 about 52.5N (1113.2 m
\* and 1828.6 m per hundredth of a degree).
ProjectX(epsg, lon) ==
    IF epsg = 27700 THEN 8000 + (((lon + 200) * 13274) \div 1000)
    ELSE (lon * 22264) \div 1000
ProjectY(epsg, lat) ==
    IF epsg = 27700 THEN (((lat - 4900) * 22240) \div 1000) - 2000
    ELSE 137822 + (((lat - 5250) * 36572) \div 1000)

IsPoint(g) == DOMAIN g = {"x", "y"}

ProjectGeometry(g, epsg) ==
    IF IsPoint(g)
    THEN Point(ProjectX(epsg, g.x), ProjectY(epsg, g.y))
    ELSE box(ProjectX(epsg, g.minx), ProjectY(epsg, g.miny),
             ProjectX(epsg, g.maxx), ProjectY(epsg, g.maxy))

\* GeoDataFrame.to_crs(epsg=...): same rows, same order, every geometry
\* projected, the frame tagged with the target CRS.
to_crs(frame, epsg) ==
    IF frame.crs = epsg THEN frame
    ELSE GeoDataFrame([k \in 1..Len(frame.geometry) |->
                          ProjectGeometry(frame.geometry[k], epsg)], epsg)

\* GeoSeries.simplify on polygons (topology preserved): a ring is never
\* collapsed, and a rectangle has no vertex to lose; it keeps its corners
\* whatever the tolerance.
SimplifyPolygon(g, tolerance) == g

\* get_region_gdf handing back the bounding boxes as they are built, in
\* geographic degrees.
get_region_gdf_Geographic(region_name) ==
    IF region_name = "UK" THEN to_crs(uk, 27700)
    ELSE IF region_name = "Sheffield"
    THEN GeoDataFrame(<< box(-155, 5332, -135, 5348) >>, 4326)
    ELSE IF region_name = "Buckinghamshire"
    THEN GeoDataFrame(<< box(-102, 5148, -47, 5208) >>, 4326)
    ELSE IF region_name = "World"
    THEN GeoDataFrame([k \in 1..Len(world.geometry) |->
                          SimplifyPolygon(world.geometry[k], 10)], world.crs)
    ELSE NoFrame

\* Lines 19-42
get_region_gdf(region_name) ==
    IF region_name = "UK" THEN to_crs(uk, 27700)
    ELSE IF region_name = "Sheffield"
    THEN to_crs(GeoDataFrame(<< box(-155, 5332, -135, 5348) >>, 4326), 3857)
    ELSE IF region_name = "Buckinghamshire"
    THEN to_crs(GeoDataFrame(<< box(-102, 5148, -47, 5208) >>, 4326), 3857)
    ELSE IF region_name = "World"
    THEN GeoDataFrame([k \in 1..Len(world.geometry) |->
                          SimplifyPolygon(world.geometry[k], 10)], world.crs)
    ELSE NoFrame

\* Within taken as not strict: a point of the boundary counts.
Within_Closed(p, g) == g.minx <= p.x /\ p.x <= g.maxx /\ g.miny <= p.y /\ p.y <= g.maxy

\* The two binary predicates of sjoin, for a point and a polygon: within
\* is strict (a point of the boundary is not within), intersects is not.
Within(p, g) == g.minx < p.x /\ p.x < g.maxx /\ g.miny < p.y /\ p.y < g.maxy
Intersects(p, g) == g.minx <= p.x /\ p.x <= g.maxx /\ g.miny <= p.y /\ p.y <= g.maxy
Holds(predicate, p, g) ==
    IF predicate = "within" THEN Within(p, g) ELSE Intersects(p, g)

\* gpd.sjoin(left, right, how="inner", predicate=...): one row per pair of
\* a left row and a right row the predicate holds of, in left order.
sjoin(left, right, predicate) ==
    LET nl == Len(left.geometry)
        nr == Len(right.geometry)
        Matches[k \in 1..nl, j \in 0..nr] ==
            IF j = 0 THEN << >>
            ELSE IF Holds(predicate, left.geometry[k], right.geometry[j])
                 THEN Append(Matches[k, j - 1], left.geometry[k])
                 ELSE Matches[k, j - 1]
        Rows[k \in 0..nl] ==
            IF k = 0 THEN << >> ELSE Rows[k - 1] \o Matches[k, nr]
    IN  GeoDataFrame(Rows[nl], left.crs)

\* Distance units (metres; thousandths of a degree for EPSG:4326) per
\* coordinate unit.
UnitOf(crs) == IF crs = 4326 THEN 10 ELSE 50

Max(a, b) == IF a >= b THEN a ELSE b
Min(a, b) == IF a <= b THEN a ELSE b
Abs(a) == IF a >= 0 THEN a ELSE -a

\* An area-bearing geometry: the union of the regular polygons of `sides`
\* sides inscribed in the circles of radius `distance` about `centres`.
NoGeometry == [centres |-> {}, distance |-> 0, crs |-> 0, sides |-> 0]

\* Point.buffer(distance): shapely's disk, a polygon of 64 sides.
buffer(p, distance, crs) ==
    [centres |-> {p}, distance |-> distance, crs |-> crs, sides |-> 64]

\* GeoSeries.unary_union (union_all) of the buffers of a frame's points
unary_union(frame, distance) ==
    [centres |-> UNION { buffer(frame.geometry[k], distance, frame.crs).centres :
                           k \in 1..Len(frame.geometry) },
     distance |-> distance, crs |-> frame.crs, sides |-> 64]

\* Geometry.simplify(tolerance) on a union of disks, taken disk by disk:
\* Douglas-Peucker halves the arcs of the ring until the arc left deviates
\* from its chord by no more than the tolerance.  An arc of 1/n of the
\* circle deviates by distance * (1 - cos(pi / n)): 0.2929, 0.0761, 0.0192
\* and 0.0048 of the distance for n = 4, 8, 16, 32.
simplify(geometry, tolerance) ==
    [geometry EXCEPT !.sides =
        IF geometry.centres = {} THEN 64
        ELSE IF tolerance * 10000 >= 2929 * geometry.distance THEN 4
        ELSE IF tolerance * 10000 >= 761 * geometry.distance THEN 8
        ELSE IF tolerance * 10000 >= 192 * geometry.distance THEN 16
        ELSE IF tolerance * 10000 >= 48 * geometry.distance THEN 32
        ELSE 64]

\* Areas of geometries about points are measured on a grid of a quarter of
\* the buffer distance: so many of its cells to the side of a coordinate
\* unit (the distances of the scripts divide four units).
SubCells(distance, crs) == (4 * UnitOf(crs)) \div distance

\* Whether the centre of a cell lies in the regular polygon of `sides` sides
\* (a vertex on the x axis) of radius four cells; dx, dy are twice the
\* distances of the cell's centre from the polygon's, so the radius is 8.
\* Polygons of 32 and 64 sides are taken as the circle; the cells an edge
\* of the square cuts in half count in two quadrants of the four.
InPolygon(dx, dy, sides) ==
    LET hi == Max(Abs(dx), Abs(dy))
        lo == Min(Abs(dx), Abs(dy))
    IN  IF sides = 4 THEN hi + lo < 8 \/ (hi + lo = 8 /\ dx * dy > 0)
        ELSE IF sides = 8 THEN (1000 * hi) + (414 * lo) <= 8000
        ELSE IF sides = 16
        THEN (1000 * hi) + (199 * lo) <= 8000 /\ (831 * hi) + (556 * lo) <= 7848
        ELSE (hi * hi) + (lo * lo) <= 64

\* The cells of the grid whose centre lies in the polygon about p.
PolygonCells(p, cells_per_unit, sides) ==
    LET cx == p.x * cells_per_unit
        cy == p.y * cells_per_unit
    IN  { c \in ((cx - 4)..(cx + 3)) \X ((cy - 4)..(cy + 3)) :
            InPolygon((2 * (c[1] - cx)) + 1, (2 * (c[2] - cy)) + 1, sides) }

\* .area of a regular polygon of `sides` sides inscribed in a circle of
\* radius four cells: (sides / 2) * sin(2 pi / sides) * 16 cells, in
\* hundred-thousandths of a cell.
RegularPolygonArea(sides) ==
    IF sides = 4 THEN 3200000
    ELSE IF sides = 8 THEN 4525483
    ELSE IF sides = 16 THEN 4898348
    ELSE IF sides = 32 THEN 4994312
    ELSE 5018478

\* .area of a polygon, in squares of the coordinate unit.
PolygonArea(g) == (g.maxx - g.minx) * (g.maxy - g.miny)

\* .area of a union of buffers, in hundred-thousandths of a cell of its
\* grid.  A cell of a polygon's raster carries the polygon's area divided
\* by the number of its cells, and a cell that several polygons share is
\* counted once: the area is that of the polygons for disks that are apart
\* or coincide.  Where disks overlap, shapely simplifies the ring of the
\* union as a whole, and what it keeps depends on the vertex the ring
\* starts at (by about 5% of the area on the lattices used here); the
\* cells give the union of each disk's own simplified polygon, which lies
\* between 4% below the least and 0.5% above the greatest of these areas.
CellsArea(geometry) ==
    LET cells == Cardinality(UNION { PolygonCells(p, SubCells(geometry.distance,
                                                               geometry.crs),
                                                  geometry.sides) :
                                       p \in geometry.centres })
        one   == Cardinality(PolygonCells(Point(0, 0), 1, geometry.sides))
        area  == RegularPolygonArea(geometry.sides)
    IN  IF geometry.centres = {} THEN 0
        ELSE ((cells \div one) * area) + (((cells % one) * area) \div one)

\* percent as the script holds it: None, or a float in units of 0.0001
\* (the four decimals it prints, rounded to the nearest), or the inf / nan
\* of a zero region area.  The covered area is in hundred-thousandths of a
\* cell, `cells_per_unit` cells to the side of a coordinate unit; the
\* region area is in squares of the coordinate unit.
NoPercent == [kind |-> "None", value |-> 0]
Percentage(covered_area, region_area, cells_per_unit) ==
    IF region_area = 0
    THEN [kind |-> (IF covered_area = 0 THEN "nan" ELSE "inf"), value |-> 0]
    ELSE [kind |-> "float",
          value |-> (((covered_area * 20) \div (cells_per_unit * cells_per_unit))
                         + region_area) \div (2 * region_area)]

\* The region lists line 120 can hold: the script's own, and one in another
\* order that asks for a name get_region_gdf does not know.
RegionLists ==
    { << "World", "UK", "Sheffield", "Buckinghamshire" >>,
      << "Sheffield", "World", "Atlantis", "UK" >> }

\* Line 181: the tolerance of a region that is not the world.
SimplifyTolerance(name) == IF name = "UK" THEN 10 ELSE 30

\* No region taken as opting out of the coverage percentage.
NoAreaSemantics_Never(name) == FALSE

\* Line 185: the world pseudo-region has no coverage percentage.
NoAreaSemantics(name) == name = "World"

\* ---------------------------------------------------------------- state
VARIABLES
    pc,               \* position of the script
    error,            \* the uncaught exception that ended the run, or "none"
    sample_rate,      \* line 50 (a configuration value)
    runs,             \* line 46: the combined point list
    valid_files,      \* line 47
    file,             \* the loop variable of line 52
    points,           \* line 67
    point_count,      \* lines 68, 94
    file_has_points,  \* line 93
    \* observation
    nfiles,           \* directory entries taken so far
    nsegs,            \* segments taken from the current GPX file
    open_len,         \* Len(runs) when the current file was taken
    open_valid,       \* valid_files when the current file was taken
    nrec,             \* records (points) of the current file read so far
    nvalid,           \* of these, how many carry both coordinates
    outcome,          \* how the last file ended
    open_handles,     \* the files opened and not yet closed, by entry number
    last_record,      \* the record line 69 last yielded, while its file is read
    \* the region loop
    gdf,                  \* line 113
    regions,              \* line 120
    ridx,                 \* how many elements of `regions` line 122 has taken
    region_name,          \* line 122
    region_gdf,           \* line 126
    gdf_for_region,       \* lines 130, 134, 138
    buffer_distance,      \* lines 131, 135, 139
    region_gdf_filtered,  \* lines 144, 150, 160
    covered_union,        \* lines 175-182
    simplify_tolerance,   \* line 181
    percent,              \* lines 187, 191
    \* observation
    ops,              \* the geometry operations of the current region iteration
    results,          \* what line 167 and line 192 printed, per region
    saved             \* the regions whose plot line 260 saved

filevars == << runs, valid_files, file, points, point_count, file_has_points >>
obsvars == << nfiles, nsegs, open_len, open_valid, nrec, nvalid, outcome,
             open_handles, last_record >>
regionvars == << gdf, regions, ridx, region_name, region_gdf, gdf_for_region,
                 buffer_distance, region_gdf_filtered, covered_union,
                 simplify_tolerance, percent >>
regionobs == << ops, results, saved >>
vars == << pc, error, sample_rate, filevars, obsvars, regionvars, regionobs >>

Init ==
    /\ pc = "files"
    /\ error = "none"
    /\ sample_rate \in (1..MaxStride) \cup {DefaultStride}
    /\ runs = <<>>
    /\ valid_files = 0
    /\ file = None
    /\ points = <<>>
    /\ point_count = 0
    /\ file_has_points = FALSE
    /\ nfiles = 0
    /\ nsegs = 0
    /\ open_len = 0
    /\ open_valid = 0
    /\ nrec = 0
    /\ nvalid = 0
    /\ outcome = "none"
    /\ open_handles = {}
    /\ last_record = NoRecord
    /\ gdf = NoFrame
    /\ regions = << >>
    /\ ridx = 0
    /\ region_name = ""
    /\ region_gdf = NoFrame
    /\ gdf_for_region = NoFrame
    /\ buffer_distance = 0
    /\ region_gdf_filtered = NoFrame
    /\ covered_union = NoGeometry
    /\ simplify_tolerance = 0
    /\ percent = NoPercent
    /\ ops = {}
    /\ results = << >>
    /\ saved = << >>

\* ------------------------------------------------------------ file loop
\* Taking the next directory entry (line 52): what the observation records.
TakeFile(name) ==
    /\ pc = "files"
    /\ nfiles < MaxFiles
    /\ file' = name
    /\ nfiles' = nfiles + 1
    /\ open_len' = Len(runs)
    /\ open_valid' = valid_files
    /\ nrec' = 0
    /\ nvalid' = 0
    /\ nsegs' = 0
    /\ last_record' = NoRecord

\* Lines 55-56, 59-60: the file is opened; the `with` block is entered.
GpxOpen(name) ==
    /\ TakeFile(name)
    /\ Branch(name) \in {"gpx", "gpx.gz"}
    /\ open_handles' = open_handles \cup {nfiles + 1}
    /\ pc' = "gpx_parse"
    /\ outcome' = "open"
    /\ UNCHANGED << regionvars, regionobs >>
    /\ UNCHANGED << error, sample_rate, runs, valid_files, points, point_count,
                    file_has_points >>

\* Lines 57, 61 and 93-94: the file parses, the `with` block is left; the
\* GPX loops are entered.
GpxParse ==
    /\ pc = "gpx_parse"
    /\ open_handles' = Close(open_handles, nfiles)
    /\ file_has_points' = FALSE
    /\ point_count' = 0
    /\ pc' = "gpx_tracks"
    /\ UNCHANGED << regionvars, regionobs >>
    /\ UNCHANGED << error, sample_rate, runs, valid_files, file, points,
                    nfiles, nsegs, open_len, open_valid, nrec, nvalid, outcome,
                    last_record >>

\* Lines 57, 61: gpxpy.parse() raises; the `with` block closes the file and
\* nothing catches the exception.
GpxParseError ==
    /\ pc = "gpx_parse"
    /\ open_handles' = Close(open_handles, nfiles)
    /\ pc' = "crashed"
    /\ error' = "GPXException"
    /\ outcome' = "uncaught"
    /\ UNCHANGED << regionvars, regionobs >>
    /\ UNCHANGED << sample_rate, filevars,
                    nfiles, nsegs, open_len, open_valid, nrec, nvalid, last_record >>

\* The points of one segment that lines 100-104 append, the counter being
\* `count` before the segment.
RECURSIVE Sampled(_, _, _)
Sampled(pts, count, rate) ==
    IF pts = <<>> THEN <<>>
    ELSE IF (count + 1) % rate # 0
         THEN Sampled(Tail(pts), count + 1, rate)
         ELSE << Point(Head(pts).longitude, Head(pts).latitude) >>
              \o Sampled(Tail(pts), count + 1, rate)

\* Lines 96-104: one segment of the parsed file (tracks flattened).
GpxSegment(pts) ==
    /\ pc = "gpx_tracks"
    /\ nsegs < MaxSegments
    /\ nsegs' = nsegs + 1
    /\ file_has_points' = (IF pts # <<>> THEN TRUE ELSE file_has_points)
    /\ point_count' = point_count + Len(pts)
    /\ runs' = runs \o Sampled(pts, point_count, sample_rate)
    /\ Len(runs') <= MaxPoints
    /\ nrec' = nrec + Len(pts)
    /\ nvalid' = nvalid + Len(pts)
    /\ UNCHANGED << regionvars, regionobs >>
    /\ UNCHANGED << pc, error, sample_rate, valid_files, file, points,
                    nfiles, open_len, open_valid, outcome, open_handles, last_record >>

\* Lines 105-106: the file's loops are over.
GpxEnd ==
    /\ pc = "gpx_tracks"
    /\ valid_files' = (IF file_has_points THEN valid_files + 1 ELSE valid_files)
    /\ pc' = "files"
    /\ outcome' = "done"
    /\ UNCHANGED << regionvars, regionobs >>
    /\ UNCHANGED << error, sample_rate, runs, file, points, point_count, file_has_points,
                    nfiles, nsegs, open_len, open_valid, nrec, nvalid,
                    open_handles, last_record >>

\* Lines 64-68: the FIT file opens; the `with` block is entered.
FitOpen(name) ==
    /\ TakeFile(name)
    /\ Branch(name) = "fit.gz"
    /\ open_handles' = open_handles \cup {nfiles + 1}
    /\ points' = <<>>
    /\ point_count' = 0
    /\ pc' = "fit_records"
    /\ outcome' = "open"
    /\ UNCHANGED << regionvars, regionobs >>
    /\ UNCHANGED << error, sample_rate, runs, valid_files, file_has_points >>

\* Lines 65-66: FitFile(f) raises on the file just opened (not a gzip file,
\* bad FIT header); the `with` block closes it and lines 86-88 catch.
FitOpenError(name) ==
    /\ TakeFile(name)
    /\ Branch(name) = "fit.gz"
    /\ open_handles' = Close(open_handles \cup {nfiles + 1}, nfiles + 1)
    /\ pc' = "files"
    /\ outcome' = "caught"
    /\ UNCHANGED << regionvars, regionobs >>
    /\ UNCHANGED << error, sample_rate, runs, valid_files, points, point_count,
                    file_has_points >>

\* Lines 74-80: the coordinates of a record.
RecordLat(record) ==
    IF record.position_lat # None
    THEN Some(SemicirclesToDegrees(Val(record.position_lat))) ELSE None

\* A longitude that is absent or null read as zero.
RecordLon_NullAsZero(record) ==
    IF record.position_long # None
    THEN Some(SemicirclesToDegrees(Val(record.position_long))) ELSE Some(0)

RecordLon(record) ==
    IF record.position_long # None
    THEN Some(SemicirclesToDegrees(Val(record.position_long))) ELSE None

\* Line 81
HasBoth(record) == RecordLat(record) # None /\ RecordLon(record) # None

\* Lines 69-83: one record of the FIT file.
FitRecord(record) ==
    /\ pc = "fit_records"
    /\ point_count < MaxRecords
    /\ point_count' = point_count + 1
    /\ last_record' = record
    /\ IF (point_count + 1) % sample_rate # 0
       THEN UNCHANGED << runs, points >>
       ELSE IF HasBoth(record)
            THEN /\ Len(runs) < MaxPoints
                 /\ runs' = Append(runs, Point(Val(RecordLon(record)), Val(RecordLat(record))))
                 /\ points' = Append(points, << Val(RecordLat(record)), Val(RecordLon(record)) >>)
            ELSE UNCHANGED << runs, points >>
    /\ nrec' = nrec + 1
    /\ nvalid' = (IF HasBoth(record) THEN nvalid + 1 ELSE nvalid)
    /\ UNCHANGED << regionvars, regionobs >>
    /\ UNCHANGED << pc, error, sample_rate, valid_files, file, file_has_points,
                    nfiles, nsegs, open_len, open_valid, outcome, open_handles >>

\* Lines 84-85, 88: the records are exhausted; the `with` block is left.
FitEnd ==
    /\ pc = "fit_records"
    /\ open_handles' = Close(open_handles, nfiles)
    /\ last_record' = NoRecord
    /\ valid_files' = (IF points # <<>> THEN valid_files + 1 ELSE valid_files)
    /\ pc' = "files"
    /\ outcome' = "done"
    /\ UNCHANGED << regionvars, regionobs >>
    /\ UNCHANGED << error, sample_rate, runs, file, points, point_count, file_has_points,
                    nfiles, nsegs, open_len, open_valid, nrec, nvalid >>

\* Line 69: reading the next record raises (truncated stream, bad CRC);
\* the `with` block closes the file and lines 86-88 catch the exception.
\* What lines 82-83 appended stays appended.
FitReadError ==
    /\ pc = "fit_records"
    /\ open_handles' = Close(open_handles, nfiles)
    /\ last_record' = NoRecord
    /\ pc' = "files"
    /\ outcome' = "caught"
    /\ UNCHANGED << regionvars, regionobs >>
    /\ UNCHANGED << error, sample_rate, filevars,
                    nfiles, nsegs, open_len, open_valid, nrec, nvalid >>

\* Lines 90-91: no supported extension; nothing is opened, nothing printed.
SkipFile(name) ==
    /\ TakeFile(name)
    /\ Branch(name) = "skip"
    /\ pc' = "files"
    /\ outcome' = "skipped"
    /\ UNCHANGED << regionvars, regionobs >>
    /\ UNCHANGED << error, sample_rate, runs, valid_files, points, point_count,
                    file_has_points, open_handles >>

\* Line 52: the listing is exhausted; lines 108-109, 115-117: no point was
\* extracted, the script says so and exits.
ExitNoPoints ==
    /\ pc = "files"
    /\ Len(runs) = 0
    /\ pc' = "exited"
    /\ UNCHANGED << error, sample_rate, filevars, obsvars, regionvars, regionobs >>

\* Line 52: the listing is exhausted; lines 108-114, 120.
CreateGdf(region_list) ==
    /\ pc = "files"
    /\ Len(runs) > 0
    /\ gdf' = GeoDataFrame(runs, 4326)
    /\ regions' = region_list
    /\ pc' = "regions"
    /\ nfiles' = 0 /\ nsegs' = 0 /\ open_len' = 0 /\ open_valid' = 0
    /\ nrec' = 0 /\ nvalid' = 0 /\ outcome' = "none"
    /\ UNCHANGED << open_handles, last_record >>
    /\ UNCHANGED << error, sample_rate, filevars, ridx, region_name, region_gdf,
                    gdf_for_region, buffer_distance, region_gdf_filtered,
                    covered_union, simplify_tolerance, percent, regionobs >>

\* ---------------------------------------------------------- region loop
\* Lines 122-126: the next region name, and its geometry.
RegionLookup ==
    /\ pc = "regions"
    /\ ridx < Len(regions)
    /\ ridx' = ridx + 1
    /\ region_name' = regions[ridx + 1]
    /\ region_gdf' = get_region_gdf(regions[ridx + 1])
    /\ ops' = {"lookup"}
    /\ pc' = "project"
    /\ UNCHANGED << error, sample_rate, filevars, obsvars, gdf, regions,
                    gdf_for_region, buffer_distance, region_gdf_filtered,
                    covered_union, simplify_tolerance, percent, results, saved >>

\* RegionProject taking the frame the iteration before left behind instead
\* of the combined point set.
RegionProject_Chained ==
    /\ pc = "project"
    /\ LET source == IF IsNone(gdf_for_region) THEN gdf ELSE gdf_for_region
       IN  IF region_name = "World"
           THEN /\ gdf_for_region' = source
                /\ buffer_distance' = 20
                /\ ops' = ops
           ELSE IF region_name = "UK"
           THEN /\ gdf_for_region' = to_crs(source, 27700)
                /\ buffer_distance' = 100
                /\ ops' = ops \cup {"to_crs"}
           ELSE /\ gdf_for_region' = to_crs(source, 3857)
                /\ buffer_distance' = 200
                /\ ops' = ops \cup {"to_crs"}
    /\ pc' = "filter"
    /\ UNCHANGED << error, sample_rate, filevars, obsvars, gdf, regions, ridx,
                    region_name, region_gdf, region_gdf_filtered, covered_union,
                    simplify_tolerance, percent, results, saved >>

\* Lines 128-139
RegionProject ==
    /\ pc = "project"
    /\ IF region_name = "World"
       THEN /\ gdf_for_region' = gdf
            /\ buffer_distance' = 20
            /\ ops' = ops
       ELSE IF region_name = "UK"
       THEN /\ gdf_for_region' = to_crs(gdf, 27700)
            /\ buffer_distance' = 100
            /\ ops' = ops \cup {"to_crs"}
       ELSE /\ gdf_for_region' = to_crs(gdf, 3857)
            /\ buffer_distance' = 200
            /\ ops' = ops \cup {"to_crs"}
    /\ pc' = "filter"
    /\ UNCHANGED << error, sample_rate, filevars, obsvars, gdf, regions, ridx,
                    region_name, region_gdf, region_gdf_filtered, covered_union,
                    simplify_tolerance, percent, results, saved >>

\* FilterPoints with the two predicates merged into the looser one.
FilterPoints_AlwaysIntersects(points_frame, region_frame) ==
    sjoin(points_frame, region_frame, "intersects")

\* Lines 150-165: the strict predicate, then the fallback if it kept nothing.
FilterPoints(points_frame, region_frame) ==
    LET strict == sjoin(points_frame, region_frame, "within")
    IN  IF Empty(strict)
        THEN sjoin(points_frame, region_frame, "intersects")
        ELSE strict

\* Lines 141-167
RegionFilter ==
    /\ pc = "filter"
    /\ IF region_name = "World"
       THEN /\ region_gdf_filtered' = gdf_for_region
            /\ ops' = ops
       ELSE /\ ~ IsNone(region_gdf)
            /\ region_gdf_filtered' = FilterPoints(gdf_for_region, region_gdf)
            /\ ops' = ops \cup (IF Empty(sjoin(gdf_for_region, region_gdf, "within"))
                                THEN {"within", "intersects"} ELSE {"within"})
    /\ pc' = "check_empty"
    /\ UNCHANGED << error, sample_rate, filevars, obsvars, gdf, regions, ridx,
                    region_name, region_gdf, gdf_for_region, buffer_distance,
                    covered_union, simplify_tolerance, percent, results, saved >>

\* Line 147: get_region_gdf returned None for a name it does not know, and
\* None has no attribute `geometry`; nothing catches the AttributeError.
RegionFilterError ==
    /\ pc = "filter"
    /\ region_name # "World"
    /\ IsNone(region_gdf)
    /\ pc' = "crashed"
    /\ error' = "AttributeError"
    /\ UNCHANGED << sample_rate, filevars, obsvars, regionvars, regionobs >>

\* Lines 169-171
SkipEmptyRegion ==
    /\ pc = "check_empty"
    /\ Empty(region_gdf_filtered)
    /\ ops' = ops \cup {"skip"}
    /\ results' = Append(results, [region |-> region_name, points |-> 0,
                                   percent |-> NoPercent, skipped |-> TRUE])
    /\ pc' = "regions"
    /\ UNCHANGED << error, sample_rate, filevars, obsvars, regionvars, saved >>

\* Lines 173-182
BufferUnion ==
    /\ pc = "check_empty"
    /\ ~ Empty(region_gdf_filtered)
    /\ IF region_name = "World"
       THEN /\ covered_union' = simplify(unary_union(region_gdf_filtered, buffer_distance), 1)
            /\ UNCHANGED simplify_tolerance
       ELSE /\ simplify_tolerance' = SimplifyTolerance(region_name)
            /\ covered_union' = simplify(unary_union(region_gdf_filtered, buffer_distance),
                                         SimplifyTolerance(region_name))
    /\ ops' = ops \cup {"buffer", "unary_union", "simplify"}
    /\ pc' = "coverage"
    /\ UNCHANGED << error, sample_rate, filevars, obsvars, gdf, regions, ridx,
                    region_name, region_gdf, gdf_for_region, buffer_distance,
                    region_gdf_filtered, percent, results, saved >>

\* Lines 184-192
Coverage ==
    /\ pc = "coverage"
    /\ IF NoAreaSemantics(region_name)
       THEN /\ percent' = NoPercent
            /\ ops' = ops
       ELSE /\ percent' = Percentage(CellsArea(covered_union),
                                     PolygonArea(region_gdf.geometry[1]),
                                     SubCells(buffer_distance, gdf_for_region.crs))
            /\ ops' = ops \cup {"area", "percent"}
    /\ results' = Append(results, [region |-> region_name,
                                   points |-> Len(region_gdf_filtered.geometry),
                                   percent |-> percent', skipped |-> FALSE])
    /\ pc' = "render"
    /\ UNCHANGED << error, sample_rate, filevars, obsvars, gdf, regions, ridx,
                    region_name, region_gdf, gdf_for_region, buffer_distance,
                    region_gdf_filtered, covered_union, simplify_tolerance, saved >>

\* Lines 194-263: the plot is drawn and saved.
Render ==
    /\ pc = "render"
    /\ saved' = Append(saved, region_name)
    /\ ops' = ops \cup {"savefig"}
    /\ pc' = "regions"
    /\ UNCHANGED << error, sample_rate, filevars, obsvars, regionvars, results >>

\* Lines 194-263: drawing or saving raises (the basemap tiles cannot be
\* fetched, the image cannot be written); nothing catches it.
RenderError ==
    /\ pc = "render"
    /\ pc' = "crashed"
    /\ error' = "RenderError"
    /\ UNCHANGED << sample_rate, filevars, obsvars, regionvars, regionobs >>

\* Line 265
RegionsDone ==
    /\ pc = "regions"
    /\ ridx = Len(regions)
    /\ pc' = "done"
    /\ UNCHANGED << error, sample_rate, filevars, obsvars, regionvars, regionobs >>

Next ==
    \/ \E name \in FileNames : GpxOpen(name)
    \/ GpxParse
    \/ GpxParseError
    \/ \E pts \in SeqsUpTo(GpxPoints, MaxSegPoints) : GpxSegment(pts)
    \/ GpxEnd
    \/ \E name \in FileNames : FitOpen(name)
    \/ \E name \in FileNames : FitOpenError(name)
    \/ \E record \in FitRecords : FitRecord(record)
    \/ FitEnd
    \/ FitReadError
    \/ \E name \in FileNames : SkipFile(name)
    \/ ExitNoPoints
    \/ \E region_list \in RegionLists : CreateGdf(region_list)
    \/ RegionLookup
    \/ RegionProject
    \/ RegionFilter
    \/ RegionFilterError
    \/ SkipEmptyRegion
    \/ BufferUnion
    \/ Coverage
    \/ Render
    \/ RenderError
    \/ RegionsDone

Spec == Init /\ [][Next]_vars

\* ------------------------------------------------- the filter on its own
\* The filter, the buffers and the metric as a function of their inputs:
\* one UK iteration taken at line 141, for any region polygon the boundary
\* dataset may hold and any projected points, on a lattice fine enough for
\* region and buffer to be of one scale.  The polygon is the bounding
\* extent of the points, or one of two fixed squares.
GeomLattice == { Point(x, y) : x \in 0..GeomSize, y \in 0..GeomSize }

SeqMin(pts, Coord(_)) ==
    CHOOSE m \in { Coord(pts[k]) : k \in 1..Len(pts) } :
        \A k \in 1..Len(pts) : m <= Coord(pts[k])
SeqMax(pts, Coord(_)) ==
    CHOOSE m \in { Coord(pts[k]) : k \in 1..Len(pts) } :
        \A k \in 1..Len(pts) : m >= Coord(pts[k])

\* The bounding extent of a non-empty sequence of points.
BoundingExtent(pts) ==
    box(SeqMin(pts, LAMBDA p : p.x), SeqMin(pts, LAMBDA p : p.y),
        SeqMax(pts, LAMBDA p : p.x), SeqMax(pts, LAMBDA p : p.y))

GeomRegions(pts) ==
    { BoundingExtent(pts), box(0, 0, 1, 1), box(0, 0, GeomSize, GeomSize) }

InitGeom ==
    \E pts \in SeqsUpTo(GeomLattice, MaxGeomPoints) \ { << >> } :
      \E polygon \in GeomRegions(pts) :
        /\ pc = "filter"
        /\ error = "none"
        /\ sample_rate = DefaultStride
        /\ runs = << >>
        /\ valid_files = 0
        /\ file = None
        /\ points = << >>
        /\ point_count = 0
        /\ file_has_points = FALSE
        /\ nfiles = 0 /\ nsegs = 0 /\ open_len = 0 /\ open_valid = 0
        /\ nrec = 0 /\ nvalid = 0 /\ outcome = "none"
        /\ open_handles = {}
        /\ last_record = NoRecord
        /\ gdf = NoFrame
        /\ regions = << "UK" >>
        /\ ridx = 1
        /\ region_name = "UK"
        /\ region_gdf = GeoDataFrame(<< polygon >>, 27700)
        /\ gdf_for_region = GeoDataFrame(pts, 27700)
        /\ buffer_distance = 100
        /\ region_gdf_filtered = NoFrame
        /\ covered_union = NoGeometry
        /\ simplify_tolerance = 0
        /\ percent = NoPercent
        /\ ops = {"lookup", "to_crs"}
        /\ results = << >>
        /\ saved = << >>

NextGeom ==
    \/ RegionFilter
    \/ SkipEmptyRegion
    \/ BufferUnion
    \/ Coverage
    \/ Render
    \/ RenderError
    \/ RegionsDone

SpecGeom == InitGeom /\ [][NextGeom]_vars

\* ------------------------------------------------- the UK-only script
\* src/MapCoverage.py, the script of one region: its file loop is the file
\* loop above without sampling (every point is kept, which is stride 1), and
\* what follows the loop is below.  Lines 122-123 of that script, the branch
\* of an empty frame, cannot be reached: line 72 runs only with a point.
InitLegacy == Init /\ sample_rate = 1

\* src/MapCoverage.py lines 71-73: the frame is made and projected at once.
LegacyCreateGdf ==
    /\ pc = "files"
    /\ Len(runs) > 0
    /\ gdf' = to_crs(GeoDataFrame(runs, 4326), 27700)
    /\ pc' = "legacy_tail"
    /\ UNCHANGED << error, sample_rate, filevars, obsvars, regions, ridx, region_name,
                    region_gdf, gdf_for_region, buffer_distance, region_gdf_filtered,
                    covered_union, simplify_tolerance, percent, regionobs >>

\* src/MapCoverage.py lines 74-75: no point was extracted; the script says
\* so and goes on, `gdf` never having been assigned.
LegacyNoPoints ==
    /\ pc = "files"
    /\ Len(runs) = 0
    /\ pc' = "legacy_tail"
    /\ UNCHANGED << error, sample_rate, filevars, obsvars, regionvars, regionobs >>

\* src/MapCoverage.py line 78: `gdf.empty` is read while `gdf` is unbound.
LegacyNameError ==
    /\ pc = "legacy_tail"
    /\ IsNone(gdf)
    /\ pc' = "crashed"
    /\ error' = "NameError"
    /\ UNCHANGED << sample_rate, filevars, obsvars, regionvars, regionobs >>

\* src/MapCoverage.py lines 78-100: the points that intersect the UK, their
\* buffers of 20 m, the union and the percentage (line 11: the UK polygon
\* in EPSG:27700).
LegacyCoverage ==
    /\ pc = "legacy_tail"
    /\ ~ IsNone(gdf)
    /\ region_name' = "UK"
    /\ region_gdf' = to_crs(uk, 27700)
    /\ gdf_for_region' = gdf
    /\ buffer_distance' = 20
    /\ region_gdf_filtered' = sjoin(gdf, to_crs(uk, 27700), "intersects")
    /\ covered_union' = unary_union(sjoin(gdf, to_crs(uk, 27700), "intersects"), 20)
    /\ percent' = Percentage(CellsArea(covered_union'),
                             PolygonArea(to_crs(uk, 27700).geometry[1]),
                             SubCells(20, 27700))
    /\ ops' = {"intersects", "buffer", "unary_union", "area", "percent"}
    /\ results' = Append(results, [region |-> "UK",
                                   points |-> Len(region_gdf_filtered'.geometry),
                                   percent |-> percent', skipped |-> FALSE])
    /\ pc' = "legacy_render"
    /\ UNCHANGED << error, sample_rate, filevars, obsvars, gdf, regions, ridx,
                    simplify_tolerance, saved >>

\* src/MapCoverage.py lines 102-121: the plot is drawn and saved.
LegacyRender ==
    /\ pc = "legacy_render"
    /\ saved' = Append(saved, region_name)
    /\ ops' = ops \cup {"savefig"}
    /\ pc' = "done"
    /\ UNCHANGED << error, sample_rate, filevars, obsvars, regionvars, results >>

\* src/MapCoverage.py lines 102-115: drawing or saving raises (the image
\* cannot be written); nothing catches it.
LegacyRenderError ==
    /\ pc = "legacy_render"
    /\ pc' = "crashed"
    /\ error' = "RenderError"
    /\ UNCHANGED << sample_rate, filevars, obsvars, regionvars, regionobs >>

\* src/MapCoverage.py lines 118-121: savefig returned and the image is not
\* there; the script says so and ends.
LegacySaveMissing ==
    /\ pc = "legacy_render"
    /\ ops' = ops \cup {"savefig"}
    /\ pc' = "done"
    /\ UNCHANGED << error, sample_rate, filevars, obsvars, regionvars, results, saved >>

NextLegacy ==
    \/ \E name \in FileNames : GpxOpen(name)
    \/ GpxParse
    \/ GpxParseError
    \/ \E pts \in SeqsUpTo(GpxPoints, MaxSegPoints) : GpxSegment(pts)
    \/ GpxEnd
    \/ \E name \in FileNames : FitOpen(name)
    \/ \E name \in FileNames : FitOpenError(name)
    \/ \E record \in FitRecords : FitRecord(record)
    \/ FitEnd
    \/ FitReadError
    \/ \E name \in FileNames : SkipFile(name)
    \/ LegacyCreateGdf
    \/ LegacyNoPoints
    \/ LegacyNameError
    \/ LegacyCoverage
    \/ LegacyRender
    \/ LegacyRenderError
    \/ LegacySaveMissing

SpecLegacy == InitLegacy /\ [][NextLegacy]_vars

\* ------------------------------------------------------------ properties
\* What the file just finished added to `runs`, and to `valid_files`.
AddedByFile == Len(runs) - open_len
CountedByFile == valid_files - open_valid
FileFinished == pc = "files" /\ outcome \in {"done", "caught", "skipped"}

\* C1: for every supported format a parse failure of one file is caught and
\* the file loop goes on with the next directory entry; the run never ends
\* inside the file loop because of one file's decode error.
C1_ParseFailureIsCaught ==
    outcome \in {"caught", "uncaught"} => (pc \in {"files", "exited"} /\ error = "none")

\* C2: a file whose parsing fails part-way contributes zero points: after
\* the failure `runs` is exactly what it was before the file was opened.
C2_FailedFileAddsNothing ==
    (pc = "files" /\ outcome = "caught") => AddedByFile = 0

\* C3: a file is counted in valid_files if and only if it added at least
\* one point to `runs`; a file that added none (its points all dropped by
\* sampling included) is not counted.
C3_CountedIffAddedPoints ==
    FileFinished =>
        /\ CountedByFile \in {0, 1}
        /\ (CountedByFile = 1) <=> (AddedByFile >= 1)

\* C4: per file, the record counter restarting at that file, stride 1
\* retains exactly the file's count of valid points and stride N retains
\* floor(count / N) of them, within one.
C4_StrideRetainsFloor ==
    (pc = "files" /\ outcome = "done") =>
        /\ (sample_rate = 1 => AddedByFile = nvalid)
        /\ AddedByFile - (nvalid \div sample_rate) \in {-1, 0, 1}

\* The region polygon and the projected points of the current iteration.
RegionPolygon == region_gdf.geometry[1]
StrictlyInside(p) ==
    /\ RegionPolygon.minx < p.x /\ p.x < RegionPolygon.maxx
    /\ RegionPolygon.miny < p.y /\ p.y < RegionPolygon.maxy
Outside(p) ==
    \/ p.x < RegionPolygon.minx \/ p.x > RegionPolygon.maxx
    \/ p.y < RegionPolygon.miny \/ p.y > RegionPolygon.maxy
OnBoundary(p) == ~ StrictlyInside(p) /\ ~ Outside(p)
PointsInside == SelectSeq(gdf_for_region.geometry, StrictlyInside)
PointsTouching == SelectSeq(gdf_for_region.geometry, LAMBDA p : ~ Outside(p))
Filtered == pc \in {"check_empty", "coverage", "render"} /\ region_name # "World"

\* C5: for every non-world region the filtered point set is exactly the
\* points strictly within the region polygon when there is one, and exactly
\* the points intersecting the polygon otherwise, never a mixture.
C5_WithinElseIntersects ==
    Filtered =>
        region_gdf_filtered.geometry =
            (IF PointsInside # << >> THEN PointsInside ELSE PointsTouching)

\* C5's case: every point the region touches lies on its boundary, the
\* strict predicate kept none and the fallback kept them all.
C5_Witness ==
    /\ Filtered
    /\ pc = "check_empty"
    /\ "intersects" \in ops
    /\ PointsTouching # << >>
    /\ \A k \in 1..Len(PointsTouching) : OnBoundary(PointsTouching[k])
    /\ region_gdf_filtered.geometry = PointsTouching

\* What the strict predicate returned at lines 150-155: the filtered frame,
\* unless the fallback had to replace an empty one.
StrictResult ==
    IF "intersects" \in ops THEN << >> ELSE region_gdf_filtered.geometry
RegionIsExtent ==
    /\ PolygonArea(RegionPolygon) > 0
    /\ RegionPolygon = BoundingExtent(gdf_for_region.geometry)

\* C6 as stated: the strict predicate, on a region equal to the bounding
\* extent of the projected points, returns the full point set.
C6_StrictOnExtentKeepsAll ==
    (Filtered /\ RegionIsExtent) => StrictResult = gdf_for_region.geometry

\* C6 as amended: on a region equal to the bounding extent of the points the
\* strict predicate returns exactly the points off the extent's boundary,
\* which is never the full set; when it returns none, the fallback returns
\* the full set.
C6_StrictOnExtentKeepsInterior ==
    (Filtered /\ RegionIsExtent) =>
        /\ StrictResult = PointsInside
        /\ Len(StrictResult) < Len(gdf_for_region.geometry)
        /\ StrictResult = << >> => region_gdf_filtered.geometry = gdf_for_region.geometry

\* C6's case: the region is the extent of the points and some of them lie
\* strictly inside it.
C6_Witness ==
    /\ Filtered
    /\ RegionIsExtent
    /\ StrictResult # << >>

\* C7: for a non-world region of positive area the coverage percentage
\* lies in [0, 100].
C7_PercentageInRange ==
    (pc = "render" /\ region_name # "World" /\ PolygonArea(RegionPolygon) > 0) =>
        /\ percent.kind = "float"
        /\ percent.value >= 0
        /\ percent.value <= 100 * 10000

KnownRegions == {"World", "UK", "Sheffield", "Buckinghamshire"}

\* C8: a region name the registry does not know fails at the lookup, for
\* that region only: no later step of the iteration runs on it and the run
\* does not end there.
C8_UnknownRegionFailsAtLookup ==
    (ridx > 0 /\ region_name \notin KnownRegions) =>
        pc \notin {"project", "filter", "check_empty", "coverage", "render", "crashed"}

HeavyOps == {"buffer", "unary_union", "simplify", "area", "percent", "savefig"}

\* C9: a region with no attributable point after both predicates is skipped
\* before any buffer, union, area or percentage is computed, no coverage
\* result is produced for it, and the loop is back at its head.
C9_EmptyRegionSkipped ==
    /\ (pc \in {"coverage", "render"} \/ ops \cap HeavyOps # {})
          => Len(region_gdf_filtered.geometry) > 0
    /\ "skip" \in ops =>
          /\ pc \in {"regions", "done"}
          /\ Len(region_gdf_filtered.geometry) = 0
          /\ ops \cap HeavyOps = {}
          /\ results[Len(results)].region = region_name
          /\ results[Len(results)].skipped
          /\ results[Len(results)].percent = NoPercent
          /\ \A k \in 1..Len(saved) : saved[k] # region_name

\* C9's case: a region was skipped for want of points, both predicates
\* having been tried, and regions remain for the loop to take.
C9_Witness ==
    /\ "skip" \in ops
    /\ {"within", "intersects"} \subseteq ops
    /\ pc = "regions"
    /\ ridx < Len(regions)

\* C10: a failure while processing one region is isolated to that region:
\* the run never ends inside the region loop.
C10_RegionFailureIsolated ==
    ~ (pc = "crashed" /\ ridx > 0)

ProjectedCRS == {27700, 3857}

\* C11: in every region iteration the buffers are made, and the areas are
\* measured, only on geometries held in a projected linear-unit CRS, never
\* on geometries in geographic degrees (EPSG:4326).
C11_BufferAndAreaProjected ==
    /\ "buffer" \in ops => region_gdf_filtered.crs \in ProjectedCRS
    /\ "area" \in ops => /\ region_gdf.crs \in ProjectedCRS
                         /\ region_gdf_filtered.crs \in ProjectedCRS

\* C12: whenever the region polygon's area is zero or the region is the
\* world pseudo-region, the coverage metric fails: the iteration never gets
\* past the metric with a numeric or placeholder percentage.
C12_DegenerateAreaFailsMetric ==
    pc = "render" => ~ (region_name = "World" \/ PolygonArea(RegionPolygon) = 0)

\* C13: for the world pseudo-region no coverage percentage is computed: the
\* World iteration reads no region area and divides no areas, and its
\* percentage is undefined, in the iteration and in what it reports.
C13_WorldHasNoPercentage ==
    /\ region_name = "World" => ops \cap {"area", "percent"} = {}
    /\ (region_name = "World" /\ pc = "render") => percent = NoPercent
    /\ \A k \in 1..Len(results) :
          results[k].region = "World" => results[k].percent = NoPercent

\* C13's case: the World iteration reaches the plot after a region whose
\* percentage was computed.
C13_Witness ==
    /\ pc = "render"
    /\ region_name = "World"
    /\ ridx = 2
    /\ results[1].percent.kind = "float"
    /\ percent = NoPercent

\* .area of a region's polygon, in the cells of its metre-based CRS
RegionArea(name) == PolygonArea(get_region_gdf(name).geometry[1])

\* C14: the simplification tolerance is ordered by region scale: of two
\* non-world regions in metre-based CRSs, the one of larger area is
\* simplified with a tolerance at least as large.
C14_ToleranceOrderedByScale ==
    (pc = "coverage" /\ region_name # "World") =>
        \A other \in KnownRegions \ {"World"} :
            /\ RegionArea(other) >= PolygonArea(RegionPolygon)
                  => SimplifyTolerance(other) >= simplify_tolerance
            /\ RegionArea(other) <= PolygonArea(RegionPolygon)
                  => SimplifyTolerance(other) <= simplify_tolerance

\* C15: a record adds a point to the combined list only if both its
\* latitude and its longitude are present and non-null, whatever the records
\* before it carried; a record adds at most one point.
C15_PointNeedsBothCoordinates ==
    [][(pc = "fit_records" /\ pc' = "fit_records") =>
          /\ Len(runs') \in {Len(runs), Len(runs) + 1}
          /\ Len(runs') > Len(runs) =>
                /\ last_record'.position_lat # None
                /\ last_record'.position_long # None]_vars

\* C15's case: at stride 1 a record with both coordinates was read and
\* added, then a record with a latitude and no longitude, which added none.
C15_Witness ==
    /\ pc = "fit_records"
    /\ sample_rate = 1
    /\ nrec = 2
    /\ last_record.position_lat # None
    /\ last_record.position_long = None
    /\ AddedByFile = 1

\* A name that ends in none of .gpx, .gpx.gz, .fit.gz
Unsupported(name) ==
    ~ \E suffix \in { <<"gpx">>, <<"gpx", "gz">>, <<"fit", "gz">> } : EndsWith(name, suffix)

\* C16: a directory entry with an unsupported extension is skipped silently:
\* it is not opened, the combined point list and the tally of valid files
\* are unchanged, there is no diagnostic and no error, and the loop is back
\* at its head for the next entry.
C16_UnsupportedSkippedSilently ==
    [][(pc = "files" /\ nfiles' = nfiles + 1 /\ Unsupported(file')) =>
          /\ runs' = runs
          /\ valid_files' = valid_files
          /\ open_handles = {} /\ open_handles' = {}
          /\ outcome' = "skipped"
          /\ error' = "none"
          /\ pc' = "files"]_vars

\* C16's case: an unsupported entry was skipped after a file that had added
\* points, and these are still there.
C16_Witness ==
    /\ pc = "files"
    /\ outcome = "skipped"
    /\ Unsupported(file)
    /\ nfiles = 2
    /\ Len(runs) > 0
    /\ Len(runs) = open_len
    /\ valid_files = open_valid

\* C17: every track file opened is closed before the loop takes the next
\* entry or the run ends, on every path, a parse exception included; at
\* most one track file is open at any time.
C17_FilesClosed ==
    /\ Cardinality(open_handles) <= 1
    /\ pc \in {"gpx_parse", "fit_records"} => open_handles = {nfiles}
    /\ pc \notin {"gpx_parse", "fit_records"} => open_handles = {}

\* C17's case: the second file of the run failed part-way through its
\* records, the exception was caught, and no file is left open.
C17_Witness ==
    /\ pc = "files"
    /\ outcome = "caught"
    /\ nfiles = 2
    /\ nrec > 0
    /\ open_handles = {}

RegionPhases == {"regions", "project", "filter", "check_empty", "coverage", "render", "done"}

\* The CRS in which a region is processed.
RegionCRS(name) ==
    IF name = "World" THEN 4326 ELSE IF name = "UK" THEN 27700 ELSE 3857

\* What one region's iteration reports, as a function of the combined point
\* set and of the region's name alone.
RegionResult(name) ==
    LET projected == to_crs(gdf, RegionCRS(name))
        kept == IF name = "World" THEN projected
                ELSE FilterPoints(projected, get_region_gdf(name))
        distance == IF name = "World" THEN 20 ELSE IF name = "UK" THEN 100 ELSE 200
        union == simplify(unary_union(kept, distance), SimplifyTolerance(name))
    IN  IF Len(kept.geometry) = 0
        THEN [region |-> name, points |-> 0, percent |-> NoPercent, skipped |-> TRUE]
        ELSE [region |-> name, points |-> Len(kept.geometry),
              percent |-> (IF name = "World" THEN NoPercent
                           ELSE Percentage(CellsArea(union), RegionArea(name),
                                           SubCells(distance, RegionCRS(name)))),
              skipped |-> FALSE]

\* C18: the result of a region is independent of every other region: the
\* region loop never modifies the combined geographic point set, each
\* iteration starts from it, and what it reports (the entry it has just
\* added to `results`) is a function of that set and the region alone,
\* whatever regions were processed before it.
C18_RegionsIndependent ==
    pc \in RegionPhases =>
        /\ gdf = GeoDataFrame(runs, 4326)
        /\ pc \in {"filter", "check_empty", "coverage", "render"}
              => gdf_for_region = to_crs(gdf, RegionCRS(region_name))
        /\ (pc = "render" \/ (pc = "regions" /\ "skip" \in ops)) =>
              /\ results # << >>
              /\ results[Len(results)] = RegionResult(region_name)

\* C18's case: a run whose list is in another order than the script's has
\* processed Sheffield first and the world after it, both with points.
C18_Witness ==
    /\ pc = "regions"
    /\ regions[1] = "Sheffield"
    /\ ridx = 2
    /\ Len(results) = 2
    /\ ~ results[1].skipped
    /\ ~ results[2].skipped

\* C19: at every spatial-filter step the points and the region polygon are
\* in the same CRS (World EPSG:4326, UK EPSG:27700, Sheffield and
\* Buckinghamshire EPSG:3857), and the frame whose buffers are measured is
\* in the CRS in which the region's area is measured.
C19_SameCRSAtFilter ==
    (pc \in {"filter", "check_empty", "coverage", "render"} /\ region_name \in KnownRegions) =>
        /\ gdf_for_region.crs = RegionCRS(region_name)
        /\ region_gdf.crs = gdf_for_region.crs
        /\ pc # "filter" => region_gdf_filtered.crs = region_gdf.crs

\* C19's case: the strict predicate has kept points of the Sheffield box,
\* points and box both in EPSG:3857.
C19_Witness ==
    /\ pc = "check_empty"
    /\ region_name = "Sheffield"
    /\ ops = {"lookup", "to_crs", "within"}
    /\ Len(region_gdf_filtered.geometry) > 0
    /\ gdf_for_region.crs = 3857
    /\ region_gdf.crs = 3857

FileLoopPhases == {"files", "gpx_parse", "gpx_tracks", "fit_records"}

\* C20: when the file loop ends with no point extracted, the run says so
\* and ends normally: no error is raised and no filter, buffer or coverage
\* step of any region is entered.
C20_NoPointsEndsNormally ==
    (Len(runs) = 0 /\ pc \notin FileLoopPhases /\ outcome # "uncaught") =>
        /\ error = "none"
        /\ pc \in {"exited", "legacy_tail"}
        /\ ops = {}
        /\ results = << >>

====
